---------------------------- MODULE Spec2Model ----------------------------
(***************************************************************************)
(* Model of generate.py: the recursive directory walker                    *)
(* get_files_recursive and the __main__ driver that builds the manifest    *)
(* and writes files.json.                                                  *)
(*                                                                         *)
(* Strings of the program (names, paths) are sequences of one-character    *)
(* strings, so that lower(), startswith('.'), replace("\\", "/") and the   *)
(* lexicographic comparison of sort keys are computed, not assumed.        *)
(***************************************************************************)
EXTENDS Integers, Sequences, FiniteSets, TLC

(***************************************************************************)
(* Characters and strings                                                  *)
(***************************************************************************)
LowerLetters ==
  << "a","b","c","d","e","f","g","h","i","j","k","l","m",
     "n","o","p","q","r","s","t","u","v","w","x","y","z" >>

UpperLetters ==
  << "A","B","C","D","E","F","G","H","I","J","K","L","M",
     "N","O","P","Q","R","S","T","U","V","W","X","Y","Z" >>

IndexIn(c, letters) == CHOOSE i \in 1..Len(letters) : letters[i] = c

IsLower(c) == \E i \in 1..Len(LowerLetters) : LowerLetters[i] = c

IsUpper(c) == \E i \in 1..Len(UpperLetters) : UpperLetters[i] = c

\* Code point of a character (ASCII).
Ord(c) ==
  IF IsUpper(c) THEN 64 + IndexIn(c, UpperLetters)
  ELSE IF IsLower(c) THEN 96 + IndexIn(c, LowerLetters)
  ELSE IF c = "." THEN 46
  ELSE IF c = "/" THEN 47
  ELSE 92   \* the backslash

\* str.lower() on one character.
LowerChar(c) == IF IsUpper(c) THEN LowerLetters[IndexIn(c, UpperLetters)] ELSE c

\* str.lower()
Lower(s) == [i \in 1..Len(s) |-> LowerChar(s[i])]

\* Python's < on str: lexicographic by code point, a proper prefix is smaller.
RECURSIVE StrLess(_, _)
StrLess(s, t) ==
  IF t = << >> THEN FALSE
  ELSE IF s = << >> THEN TRUE
  ELSE IF s[1] = t[1] THEN StrLess(Tail(s), Tail(t))
  ELSE Ord(s[1]) < Ord(t[1])

\* item.startswith('.')
IsHidden(item) == Len(item) > 0 /\ item[1] = "."

\* A replace that is left out: the path keeps the host's separators.
NormalizeSlashes_Identity(p) == p

\* full_path.replace("\\", "/")
NormalizeSlashes(p) == [i \in 1..Len(p) |-> IF p[i] = "\\" THEN "/" ELSE p[i]]

\* The separators os.path.join recognises on a host whose os.sep is sep.
Seps(sep) == IF sep = "\\" THEN {"\\", "/"} ELSE {"/"}

\* os.path.join(folder_path, item) for an item that is a bare name.
PathJoin(sep, folder_path, item) ==
  IF folder_path = << >> \/ folder_path[Len(folder_path)] \in Seps(sep)
    THEN folder_path \o item
    ELSE folder_path \o << sep >> \o item

(***************************************************************************)
(* The file system.  A node is a file or a directory; a directory holds    *)
(* its entries in the order os.listdir returns them (an arbitrary order),  *)
(* and may refuse to be listed (PermissionError).                          *)
(***************************************************************************)
MaxNodes == 3

MaxFsNodes == 4

\* Names the walker's inputs carry: a case tie ("a"/"A"), a name whose plain
\* and lower-cased orders differ ("B" < "a" but "a" < "b"), a hidden name,
\* and a name holding a backslash (legal on a POSIX host only).
Names == { <<"a">>, <<"A">>, <<"B">>, <<".","g">>, <<"b","\\">> }

\* Names inside the configured folders of the driver's runs.
FolderNames == { <<"a">>, <<"A">> }

Absent == [kind |-> "absent", name |-> << >>, listable |-> FALSE, entries |-> << >>]

FileNode(n) == [kind |-> "file", name |-> n, listable |-> FALSE, entries |-> << >>]

DirNode(n, ok, es) == [kind |-> "dir", name |-> n, listable |-> ok, entries |-> es]

RECURSIVE Size(_)
RECURSIVE ForestSize(_)
Size(node) == 1 + ForestSize(node.entries)
ForestSize(es) == IF es = << >> THEN 0 ELSE Size(es[1]) + ForestSize(Tail(es))

\* Forests(n, names, denied): the listings (sequences of nodes with distinct
\* names) of at most n nodes in total; denied says whether unlistable
\* directories occur.  TreesExact(s, ..): the nodes of exactly s nodes.
RECURSIVE TreesExact(_, _, _)
RECURSIVE Forests(_, _, _)
TreesExact(s, names, denied) ==
  IF s = 1
    THEN {FileNode(nm) : nm \in names}
         \cup {DirNode(nm, TRUE, << >>) : nm \in names}
         \cup (IF denied THEN {DirNode(nm, FALSE, << >>) : nm \in names} ELSE {})
    ELSE LET inner == {f \in Forests(s - 1, names, denied) : ForestSize(f) = s - 1}
         IN  {DirNode(nm, TRUE, es) : nm \in names, es \in inner}
Forests(n, names, denied) ==
  {<< >>} \cup
  UNION { LET heads == TreesExact(s, names, denied)
              rest  == Forests(n - s, names, denied)
          IN  { p[1] \o p[2] :
                  p \in { q \in { <<t>> : t \in heads } \X rest :
                           \A j \in 1..Len(q[2]) : q[2][j].name /= q[1][1].name } }
          : s \in 1..n }

(***************************************************************************)
(* os.listdir, os.path.isdir, os.path.exists on a node                     *)
(***************************************************************************)
\* os.listdir(folder_path) of a listable directory: the names, in the file
\* system's order.
Listdir(node) == [j \in 1..Len(node.entries) |-> node.entries[j].name]

\* The node that os.path.join(folder_path, item) names.
Child(node, item) ==
  IF \E j \in 1..Len(node.entries) : node.entries[j].name = item
    THEN node.entries[CHOOSE j \in 1..Len(node.entries) : node.entries[j].name = item]
    ELSE Absent

\* os.path.isdir
IsDir(node) == node.kind = "dir"

\* os.path.exists
Exists(node) == node.kind /= "absent"

(***************************************************************************)
(* get_files_recursive                                                     *)
(***************************************************************************)
\* The key without .lower(): a case-sensitive order.
SortKey_CaseSensitive(node, x) == << ~IsDir(Child(node, x)), x >>

\* key=lambda x: (not os.path.isdir(os.path.join(folder_path, x)), x.lower())
SortKey(node, x) == << ~IsDir(Child(node, x)), Lower(x) >>

\* Python's < on the (bool, str) key tuples: False < True, then the strings.
KeyLess(k1, k2) ==
  IF k1[1] /= k2[1] THEN k2[1] ELSE StrLess(k1[2], k2[2])

\* sorted(items, key=...): a stable sort, as an insertion after every element
\* whose key is not greater.
RECURSIVE InsertSorted(_, _, _)
InsertSorted(s, x, node) ==
  IF s = << >> THEN << x >>
  ELSE IF KeyLess(SortKey(node, x), SortKey(node, s[1])) THEN << x >> \o s
  ELSE << s[1] >> \o InsertSorted(Tail(s), x, node)

RECURSIVE Sorted(_, _)
Sorted(items, node) ==
  IF items = << >> THEN << >>
  ELSE InsertSorted(Sorted(SubSeq(items, 1, Len(items) - 1), node),
                    items[Len(items)], node)

\* The hidden-name test left out.
IsSkipped_Never(item) == FALSE

\* if item.startswith('.'): continue
IsSkipped(item) == IsHidden(item)

\* A directory entry that drops the recursive result.
DirEntry_NoChildren(item, full_path, children) ==
  [type |-> "dir", name |-> item, path |-> NormalizeSlashes(full_path),
   children |-> << >>]

\* The directory entry appended at lines 74-79.
DirEntry(item, full_path, children) ==
  [type |-> "dir", name |-> item, path |-> NormalizeSlashes(full_path),
   children |-> children]

\* A file entry whose url is the bare name.
FileEntry_UrlIsName(item, full_path) ==
  [type |-> "file", name |-> item, path |-> NormalizeSlashes(full_path), url |-> item]

\* The file entry appended at lines 83-89.
FileEntry(item, full_path) ==
  LET relative_path == NormalizeSlashes(full_path)
  IN  [type |-> "file", name |-> item, path |-> relative_path, url |-> relative_path]

\* The result of a call: the returned list (ret), the exception that left the
\* call uncaught ("none" when it returned), and the warning lines printed.
Returned(structure, out) == [ret |-> structure, exc |-> "none", out |-> out]

Raised(exc, out) == [ret |-> << >>, exc |-> exc, out |-> out]

\* Every failure of os.listdir taken for the missing folder (an except
\* clause on OSError).
ListdirError_AllNotFound(node) ==
  IF ~Exists(node) \/ ~IsDir(node) \/ ~node.listable THEN "FileNotFoundError" ELSE "none"

\* A missing folder reported as another error (an except clause on the wrong
\* exception).
ListdirError_MissingRaises(node) ==
  IF ~Exists(node) \/ ~IsDir(node) THEN "NotADirectoryError"
  ELSE IF ~node.listable THEN "PermissionError"
  ELSE "none"

\* os.listdir(folder_path) raises: FileNotFoundError, NotADirectoryError or
\* PermissionError; "none" when it returns the names.
ListdirError(node) ==
  IF ~Exists(node) THEN "FileNotFoundError"
  ELSE IF ~IsDir(node) THEN "NotADirectoryError"
  ELSE IF ~node.listable THEN "PermissionError"
  ELSE "none"

RECURSIVE get_files_recursive(_, _, _)
RECURSIVE WalkItems(_, _, _, _, _, _)
\* The for loop of lines 65-89 over the items still to visit.
WalkItems(sep, folder_path, node, items, structure, out) ==
  IF items = << >> THEN Returned(structure, out)
  ELSE
    LET item == items[1]
        full_path == PathJoin(sep, folder_path, item)
    IN  IF IsSkipped(item)
          THEN WalkItems(sep, folder_path, node, Tail(items), structure, out)
        ELSE IF IsDir(Child(node, item))
          THEN LET sub == get_files_recursive(sep, full_path, Child(node, item))
               IN  IF sub.exc /= "none"
                     THEN Raised(sub.exc, out \o sub.out)
                     ELSE WalkItems(sep, folder_path, node, Tail(items),
                                    Append(structure, DirEntry(item, full_path, sub.ret)),
                                    out \o sub.out)
        ELSE WalkItems(sep, folder_path, node, Tail(items),
                       Append(structure, FileEntry(item, full_path)), out)

\* get_files_recursive(folder_path) on a host whose os.sep is sep, where node
\* is what the file system holds at folder_path.
get_files_recursive(sep, folder_path, node) ==
  LET err == ListdirError(node)
  IN  IF err = "FileNotFoundError" THEN Returned(<< >>, << folder_path >>)
      ELSE IF err /= "none" THEN Raised(err, << >>)
      ELSE WalkItems(sep, folder_path, node, Sorted(Listdir(node), node), << >>, << >>)

(***************************************************************************)
(* Configuration and the driver's environment                              *)
(***************************************************************************)
syllabus == << "s","y","l","l","a","b","u","s" >>

notes == << "n","o","t","e","s" >>

assignments == << "a","s","s","i","g","n","m","e","n","t","s" >>

TARGET_FOLDERS == << syllabus, notes, assignments >>

MetadataKey == << "m","e","t","a","d","a","t","a" >>

FirstDay == 25

Digits == << "0","1","2","3","4","5","6","7","8","9" >>

\* datetime.now().strftime("%B %d, %Y") on day `day` of January 2026.
Strftime(day) ==
  << "J","a","n","u","a","r","y"," " >>
  \o << Digits[(day \div 10) + 1], Digits[(day % 10) + 1] >>
  \o << ",", " ", "2", "0", "2", "6" >>

\* What the working directory may hold under a configured folder's name, in
\* exactly s nodes (none: the folder is missing).
TopExact(folder, s) ==
  IF s = 0 THEN {Absent}
  ELSE (IF s = 1 THEN {FileNode(folder), DirNode(folder, FALSE, << >>)} ELSE {})
       \cup {DirNode(folder, TRUE, es) :
               es \in {f \in Forests(s - 1, FolderNames, TRUE) : ForestSize(f) = s - 1}}

\* The working directories: one node per configured folder from the i-th on,
\* at most n nodes in total.
RECURSIVE WorkDirs(_, _)
WorkDirs(i, n) ==
  IF i > Len(TARGET_FOLDERS) THEN {<< >>}
  ELSE UNION { { p[1] \o p[2] :
                   p \in { <<t>> : t \in TopExact(TARGET_FOLDERS[i], s) } \X WorkDirs(i + 1, n - s) }
               : s \in 0..n }

\* The same directory contents as es, listed in any order at every depth.
RECURSIVE Relistings(_)
Relistings(es) ==
  IF es = << >> THEN {<< >>}
  ELSE UNION { { p[1] \o p[2] :
                   p \in { << [es[j] EXCEPT !.entries = r] >> : r \in Relistings(es[j].entries) }
                         \X Relistings([k \in 1..(Len(es) - 1) |-> IF k < j THEN es[k] ELSE es[k + 1]]) }
               : j \in 1..Len(es) }

\* The working directory d with every configured folder's contents unchanged
\* and listed in any order.
RelistedWorkDirs(d) ==
  { w \in [1..Len(d) -> UNION { {r[1] : r \in Relistings(<< d[j] >>)} : j \in 1..Len(d) }] :
      \A j \in 1..Len(d) : << w[j] >> \in Relistings(<< d[j] >>) }

\* The contents of files.json: as found, truncated by open(.., "w"), cut
\* short by a failed write, or the dumped manifest.
OldFile == [state |-> "old", content |-> << >>]

TruncatedFile == [state |-> "truncated", content |-> << >>]

PartialFile == [state |-> "partial", content |-> << >>]

WrittenFile(d) == [state |-> "written", content |-> d]

Line(msg, arg) == [msg |-> msg, arg |-> arg]

Warnings(paths) == [j \in 1..Len(paths) |-> Line("warning", paths[j])]

(***************************************************************************)
(* State                                                                   *)
(***************************************************************************)
VARIABLES
  sep,          \* os.sep of the host
  fs,           \* the working directory: fs[i] is the node named TARGET_FOLDERS[i]
  clock,        \* today's day of the month
  run,          \* the run of the script under way: 1, or 2 (a rerun)
  pc,           \* where the script of the current run stands
  i,            \* the index of the folder the for loop visits next
  data,         \* the manifest under construction
  first,        \* the manifest the first run built
  file,         \* the contents of files.json
  out,          \* the lines printed by the current run
  folder_path,  \* the argument of a direct call of get_files_recursive
  node,         \* what the file system holds at folder_path
  result,       \* the outcome of the direct call
  wpc           \* the direct call: "call", "returned" or "raised"

vars == << sep, fs, clock, run, pc, i, data, first, file, out,
           folder_path, node, result, wpc >>

driverVars == << fs, clock, run, pc, i, data, first, file, out >>

walkerVars == << folder_path, node, result, wpc >>

NoResult == [ret |-> << >>, exc |-> "none", out |-> << >>]

HasBackslash(es) == \E j \in 1..Len(es) : es[j] = "\\"

RECURSIVE PosixOnly(_)
\* Some name in the listing holds a backslash, which only a POSIX host allows.
PosixOnly(es) ==
  \E j \in 1..Len(es) : HasBackslash(es[j].name) \/ PosixOnly(es[j].entries)

(***************************************************************************)
(* The driver (__main__)                                                   *)
(***************************************************************************)
DriverIdle ==
  /\ fs = [j \in 1..Len(TARGET_FOLDERS) |-> Absent]
  /\ clock = FirstDay /\ run = 1 /\ pc = "idle" /\ i = 1
  /\ data = << >> /\ first = << >> /\ file = OldFile /\ out = << >>

WalkerIdle ==
  /\ folder_path = << >> /\ node = Absent /\ result = NoResult /\ wpc = "idle"

Init ==
  /\ fs \in WorkDirs(1, MaxFsNodes)
  /\ sep \in {"/", "\\"}
  /\ clock = FirstDay /\ run = 1 /\ pc = "start" /\ i = 1
  /\ data = << >> /\ first = << >> /\ file = OldFile /\ out = << >>
  /\ WalkerIdle

\* A start that opens files.json for writing before the folders are scanned.
Start_OpensFirst ==
  /\ pc = "start"
  /\ LET now == Strftime(clock)
     IN  /\ data' = (MetadataKey :> [lastUpdated |-> now])
         /\ out' = << Line("starting", << >>), Line("date", now) >>
  /\ i' = 1
  /\ pc' = "scan"
  /\ file' = TruncatedFile
  /\ UNCHANGED << sep, fs, clock, run, first, walkerVars >>

\* Lines 100-112: data = {}, the metadata and the date.
Start ==
  /\ pc = "start"
  /\ LET now == Strftime(clock)
     IN  /\ data' = (MetadataKey :> [lastUpdated |-> now])
         /\ out' = << Line("starting", << >>), Line("date", now) >>
  /\ i' = 1
  /\ pc' = "scan"
  /\ UNCHANGED << sep, fs, clock, run, first, file, walkerVars >>

\* A loop whose else branch stores no entry for the missing folder.
ScanFolder_NoEmptyEntry ==
  /\ pc = "scan"
  /\ i <= Len(TARGET_FOLDERS)
  /\ LET folder == TARGET_FOLDERS[i]
     IN  IF Exists(fs[i])
           THEN LET r == get_files_recursive(sep, folder, fs[i])
                IN  /\ out' = Append(out, Line("scanning", folder)) \o Warnings(r.out)
                    /\ IF r.exc /= "none"
                         THEN /\ pc' = "failed"
                              /\ UNCHANGED << data, i >>
                         ELSE /\ data' = data @@ (folder :> r.ret)
                              /\ i' = i + 1
                              /\ pc' = IF i = Len(TARGET_FOLDERS) THEN "write" ELSE "scan"
           ELSE /\ out' = Append(out, Line("missing", folder))
                /\ data' = data
                /\ i' = i + 1
                /\ pc' = IF i = Len(TARGET_FOLDERS) THEN "write" ELSE "scan"
  /\ UNCHANGED << sep, fs, clock, run, first, file, walkerVars >>

\* Lines 115-121: one iteration of the loop over TARGET_FOLDERS.  An uncaught
\* exception of the walker ends the run.
ScanFolder ==
  /\ pc = "scan"
  /\ i <= Len(TARGET_FOLDERS)
  /\ LET folder == TARGET_FOLDERS[i]
     IN  IF Exists(fs[i])
           THEN LET r == get_files_recursive(sep, folder, fs[i])
                IN  /\ out' = Append(out, Line("scanning", folder)) \o Warnings(r.out)
                    /\ IF r.exc /= "none"
                         THEN /\ pc' = "failed"
                              /\ UNCHANGED << data, i >>
                         ELSE /\ data' = data @@ (folder :> r.ret)
                              /\ i' = i + 1
                              /\ pc' = IF i = Len(TARGET_FOLDERS) THEN "write" ELSE "scan"
           ELSE /\ out' = Append(out, Line("missing", folder))
                /\ data' = data @@ (folder :> << >>)
                /\ i' = i + 1
                /\ pc' = IF i = Len(TARGET_FOLDERS) THEN "write" ELSE "scan"
  /\ UNCHANGED << sep, fs, clock, run, first, file, walkerVars >>

\* Line 126: open(OUTPUT_FILE, "w") truncates the file, or raises.
OpenOutput ==
  /\ pc = "write"
  /\ \E ok \in BOOLEAN :
       IF ok THEN file' = TruncatedFile /\ pc' = "dump"
             ELSE file' = file /\ pc' = "failed"
  /\ UNCHANGED << sep, fs, clock, run, i, data, first, out, walkerVars >>

\* Line 127: json.dump(data, f, indent=2) and the close, or a failed write.
Dump ==
  /\ pc = "dump"
  /\ \E ok \in BOOLEAN :
       IF ok THEN file' = WrittenFile(data) /\ pc' = "success"
             ELSE file' = PartialFile /\ pc' = "failed"
  /\ UNCHANGED << sep, fs, clock, run, i, data, first, out, walkerVars >>

\* Lines 130-131: the success message; the script ends.
PrintSuccess ==
  /\ pc = "success"
  /\ out' = out \o << Line("success", << >>), Line("next", << >>) >>
  /\ pc' = "done"
  /\ UNCHANGED << sep, fs, clock, run, i, data, first, file, walkerVars >>

\* The script is run again on the unchanged folder contents, the same day or
\* the next; the file system may list every directory in another order.
Rerun ==
  /\ pc = "done"
  /\ run = 1
  /\ run' = 2
  /\ first' = data
  /\ fs' \in RelistedWorkDirs(fs)
  /\ clock' \in {clock, clock + 1}
  /\ pc' = "start"
  /\ i' = 1
  /\ data' = << >>
  /\ out' = << >>
  /\ UNCHANGED << sep, file, walkerVars >>

Next == Start \/ ScanFolder \/ OpenOutput \/ Dump \/ PrintSuccess \/ Rerun

Spec == Init /\ [][Next]_vars

(***************************************************************************)
(* A direct call of get_files_recursive                                    *)
(***************************************************************************)
RootName == << "n" >>

\* What the file system may hold at the path the walker is called on.
RootNodes ==
  {Absent, FileNode(RootName), DirNode(RootName, FALSE, << >>)}
  \cup {DirNode(RootName, TRUE, es) : es \in Forests(MaxNodes, Names, FALSE)}

InitWalker ==
  /\ node \in RootNodes
  /\ sep \in {s \in {"/", "\\"} : s = "\\" => ~PosixOnly(node.entries)}
  /\ folder_path \in {RootName, RootName \o << "/" >>}
  /\ result = NoResult
  /\ wpc = "call"
  /\ DriverIdle

CallWalker ==
  /\ wpc = "call"
  /\ result' = get_files_recursive(sep, folder_path, node)
  /\ wpc' = IF result'.exc = "none" THEN "returned" ELSE "raised"
  /\ UNCHANGED << sep, folder_path, node, driverVars >>

NextWalker == CallWalker

SpecWalker == InitWalker /\ [][NextWalker]_vars

(***************************************************************************)
(* Properties of the walker (checked under SpecWalker)                     *)
(***************************************************************************)
name_a == << "a" >>

name_B == << "B" >>

Returns == wpc = "returned"

\* Directories before files; within either group, lower-cased names never
\* decrease.
OrderedSiblings(s) ==
  \A j, k \in 1..Len(s) :
    j < k => /\ (s[j].type = "file" => s[k].type = "file")
             /\ (s[j].type = s[k].type => ~StrLess(Lower(s[k].name), Lower(s[j].name)))

RECURSIVE OrderedAll(_)
OrderedAll(s) ==
  /\ OrderedSiblings(s)
  /\ \A j \in 1..Len(s) : s[j].type = "dir" => OrderedAll(s[j].children)

\* C1: at every depth of a returned sequence, every dir entry precedes every
\* file entry, and within the dirs and within the files the lower-cased names
\* are in non-decreasing order, whatever the order of the listing.
C1_SiblingsOrdered == Returns => OrderedAll(result.ret)

\* C1's case: a directory listed as (B, a, <dir>) comes back as (<dir>, a, B).
C1_Witness ==
  /\ Returns
  /\ Len(node.entries) = 3
  /\ node.entries[1].name = name_B /\ node.entries[2].name = name_a
  /\ node.entries[1].kind = "file" /\ node.entries[2].kind = "file"
  /\ node.entries[3].kind = "dir"
  /\ Len(result.ret) = 3
  /\ result.ret[1].type = "dir" /\ result.ret[2].name = name_a /\ result.ret[3].name = name_B

RECURSIVE NoHiddenName(_)
NoHiddenName(s) ==
  \A j \in 1..Len(s) :
    /\ ~IsHidden(s[j].name)
    /\ s[j].type = "dir" => NoHiddenName(s[j].children)

RECURSIVE EntryCount(_)
\* The number of entries of a returned sequence, at all depths.
EntryCount(s) ==
  IF s = << >> THEN 0
  ELSE 1 + (IF s[1].type = "dir" THEN EntryCount(s[1].children) ELSE 0)
         + EntryCount(Tail(s))

RECURSIVE VisibleCount(_)
\* The number of nodes of a listing that lie under no hidden name.
VisibleCount(es) ==
  IF es = << >> THEN 0
  ELSE (IF IsHidden(es[1].name) THEN 0 ELSE 1 + VisibleCount(es[1].entries))
       + VisibleCount(Tail(es))

\* C2: no entry of the output, at any depth, has a name starting with '.';
\* a hidden directory is left out with its whole subtree, so the output holds
\* exactly the nodes that lie under no hidden name.
C2_HiddenExcluded ==
  Returns /\ IsDir(node) =>
    /\ NoHiddenName(result.ret)
    /\ EntryCount(result.ret) = VisibleCount(node.entries)

\* C2's case: a hidden directory with a child, beside a visible entry.
C2_Witness ==
  /\ Returns
  /\ \E j \in 1..Len(node.entries) :
       /\ IsHidden(node.entries[j].name)
       /\ node.entries[j].kind = "dir"
       /\ node.entries[j].entries /= << >>
  /\ Len(result.ret) = 1

\* C3: a call on a path that does not exist returns the empty sequence,
\* raises nothing, and prints one warning line naming the path.
C3_MissingPathReturnsEmpty ==
  (wpc /= "call" /\ ~Exists(node)) =>
    /\ wpc = "returned"
    /\ result.exc = "none"
    /\ result.ret = << >>
    /\ result.out = << folder_path >>

\* C3's case: the call on a missing path has returned.
C3_Witness == wpc = "returned" /\ ~Exists(node) /\ result.ret = << >>

RECURSIVE NoBackslash(_)
NoBackslash(s) ==
  \A j \in 1..Len(s) :
    /\ ~HasBackslash(s[j].path)
    /\ s[j].type = "file" => ~HasBackslash(s[j].url)
    /\ s[j].type = "dir" => NoBackslash(s[j].children)

\* C6: no path of any entry and no url of any file entry, at any depth,
\* holds a backslash, whatever separator os.path.join inserts.
C6_NoBackslash == Returns => NoBackslash(result.ret)

\* C6's case: a host whose separator is the backslash, and a nested file.
C6_Witness ==
  /\ Returns
  /\ sep = "\\"
  /\ \E j \in 1..Len(result.ret) :
       /\ result.ret[j].type = "dir"
       /\ \E k \in 1..Len(result.ret[j].children) : result.ret[j].children[k].type = "file"

\* The names of chain joined by the host's separator onto base.
RECURSIVE JoinChain(_, _, _)
JoinChain(s, base, chain) ==
  IF chain = << >> THEN base
  ELSE JoinChain(s, PathJoin(s, base, chain[1]), Tail(chain))

\* Every file entry below the directories named by chain has path = url =
\* the normalized join of base and the names down to the file.
RECURSIVE FilePathsFrom(_, _, _)
FilePathsFrom(s, base, chain) ==
  \A j \in 1..Len(s) :
    LET c == Append(chain, s[j].name)
    IN  /\ s[j].type = "file" =>
             /\ s[j].path = s[j].url
             /\ s[j].path = NormalizeSlashes(JoinChain(sep, base, c))
        /\ s[j].type = "dir" => FilePathsFrom(s[j].children, base, c)

\* C7, as stated: path and url of every file entry are equal and are the
\* forward-slash-normalized path of the file relative to the scan root.
C7_PathRelativeToScanRoot == Returns => FilePathsFrom(result.ret, << >>, << >>)

\* C7, amended: path and url of every file entry are equal and are the
\* forward-slash-normalized join of the scan root's path, as passed to the
\* walker, with the names from the scan root down to the file.
C7_PathJoinedOntoScanRoot == Returns => FilePathsFrom(result.ret, folder_path, << >>)

\* C7's case: a file directly under the scan root and one a level deeper.
C7_Witness ==
  /\ Returns
  /\ \E j, k \in 1..Len(result.ret) :
       /\ result.ret[j].type = "file"
       /\ result.ret[k].type = "dir"
       /\ Len(result.ret[k].children) = 1
       /\ result.ret[k].children[1].type = "file"

\* s is the faithful image of the listing es of the directory at path p.
RECURSIVE Faithful(_, _, _)
Faithful(s, p, es) ==
  /\ \A k \in 1..Len(es) :
       ~IsHidden(es[k].name) =>
         Cardinality({j \in 1..Len(s) : s[j].name = es[k].name}) = 1
  /\ \A j \in 1..Len(s) :
       \E k \in 1..Len(es) :
         /\ es[k].name = s[j].name
         /\ ~IsHidden(es[k].name)
         /\ IF es[k].kind = "dir"
              THEN /\ s[j].type = "dir"
                   /\ DOMAIN s[j] = {"type", "name", "path", "children"}
                   /\ s[j].children =
                        get_files_recursive(sep, PathJoin(sep, p, es[k].name), es[k]).ret
                   /\ Faithful(s[j].children, PathJoin(sep, p, es[k].name), es[k].entries)
              ELSE /\ s[j].type = "file"
                   /\ DOMAIN s[j] = {"type", "name", "path", "url"}

AllKeys == {MetadataKey} \cup {TARGET_FOLDERS[j] : j \in 1..Len(TARGET_FOLDERS)}

Printed(msg) == \E j \in 1..Len(out) : out[j].msg = msg

\* A listing of the node raises: it is no directory, or some directory in it
\* that lies under no hidden name refuses to be listed.
RECURSIVE ListingFails(_)
ListingFails(n) ==
  \/ n.kind = "file"
  \/ n.kind = "dir" /\ ~n.listable
  \/ n.kind = "dir" /\ \E j \in 1..Len(n.entries) :
       /\ n.entries[j].kind = "dir"
       /\ ~IsHidden(n.entries[j].name)
       /\ ListingFails(n.entries[j])

\* C4: after a successful run the manifest, in memory and in files.json, has
\* the metadata and one key per configured folder; a folder that exists
\* holds the walker's result, a missing folder the empty sequence.
C4_ManifestHasEveryFolder ==
  pc = "done" =>
    /\ file = WrittenFile(data)
    /\ DOMAIN data = AllKeys
    /\ \A j \in 1..Len(TARGET_FOLDERS) :
         data[TARGET_FOLDERS[j]] =
           IF Exists(fs[j]) THEN get_files_recursive(sep, TARGET_FOLDERS[j], fs[j]).ret
                            ELSE << >>

\* C4's case: the first folder is missing, a later one is scanned and has
\* entries, and the run succeeded.
C4_Witness ==
  /\ pc = "done"
  /\ ~Exists(fs[1])
  /\ \E j \in 2..Len(TARGET_FOLDERS) : Exists(fs[j]) /\ data[TARGET_FOLDERS[j]] /= << >>
  /\ Printed("missing")

\* C5: a second run on unchanged folder contents builds the same value for
\* every configured folder as the first run did, whatever the order in
\* which the file system lists the names on either run.
C5_RerunIdentical ==
  (run = 2 /\ pc = "done") =>
    \A j \in 1..Len(TARGET_FOLDERS) : data[TARGET_FOLDERS[j]] = first[TARGET_FOLDERS[j]]

\* C8: a run with a folder whose listing raises anything but the missing
\* directory never gets past that folder and never reaches the write; a run
\* that failed, in the scan or in the write, never prints the success
\* message.
C8_FailuresPropagate ==
  /\ \A j \in 1..Len(TARGET_FOLDERS) :
       ListingFails(fs[j]) =>
         /\ i <= j
         /\ pc \in {"start", "scan", "failed"}
         /\ ~Printed("success")
  /\ pc = "failed" => ~Printed("success")
  /\ file.state = "partial" => pc = "failed"
  /\ (pc = "failed" /\ run = 1) => file.state \in {"old", "partial"}

\* C8's case: a directory two levels down refuses to be listed and the run
\* has failed.
C8_Witness ==
  /\ pc = "failed"
  /\ \E j \in 1..Len(TARGET_FOLDERS) :
       /\ fs[j].kind = "dir" /\ fs[j].listable
       /\ \E k \in 1..Len(fs[j].entries) :
            fs[j].entries[k].kind = "dir" /\ ~fs[j].entries[k].listable

\* files.json as the run under way found it.
FileBefore == IF run = 1 THEN OldFile ELSE WrittenFile(first)

\* C10: files.json is untouched until all three folders are scanned (so a
\* run whose scan fails leaves it as it was), and once written it holds the
\* metadata and all three folder keys.
C10_WriteAfterAllScans ==
  /\ DOMAIN data /= AllKeys => file = FileBefore
  /\ pc \in {"start", "scan"} => file = FileBefore
  /\ file.state = "written" => DOMAIN file.content = AllKeys

\* C10's case: the scan failed after an earlier folder was scanned, and
\* files.json is as it was.
C10_Witness ==
  /\ pc = "failed"
  /\ TARGET_FOLDERS[1] \in DOMAIN data
  /\ DOMAIN data /= AllKeys
  /\ file = OldFile

=============================================================================
